---- MODULE Spec2Model ----
(***************************************************************************)
(* A model of package treefs (Algebra8/treefs): New / NewMulti render an   *)
(* fs.FS as the `tree` command does.                                       *)
(*                                                                         *)
(* Representation of Go strings.  A string the code inspects (an entry     *)
(* name, a root name, a path) is a sequence of tokens: the characters "."  *)
(* and "/" are always tokens of their own, every other token is a run of   *)
(* ordinary characters ("a1", "test", "testdata").  HasPrefix(name, "."),  *)
(* Contains(name, "../"), name == "." and path.Join look only at "." and   *)
(* "/", so they are computed exactly on this representation.  A string the *)
(* code only builds (a line of the graph, the metadata) is a TLA+ string,  *)
(* built with \o as fmt.Sprintf builds it; Str turns tokens into it.       *)
(*                                                                         *)
(* The box-drawing runes of the connectors cannot be written in a TLA+     *)
(* string; each is replaced by one ASCII character of the same width:      *)
(*   U+2514 -> "+",  U+251C and U+2502 -> "|",  U+2500 -> "-".             *)
(***************************************************************************)
EXTENDS Integers, Sequences, FiniteSets, TLC

VARIABLES
    fsys,   \* the file system the package is called on
    call,   \* the call made: New or NewMulti, and its arguments
    tfs,    \* the TreeFS the call returned
    err,    \* the error the call returned
    out     \* the string a method of the returned TreeFS returned

vars == <<fsys, call, tfs, err, out>>

(***************************************************************************)
(* Bounds of the model.                                                    *)
(***************************************************************************)
MaxWidth == 2       \* entries in one generated directory listing
MaxLevel == 2       \* largest argument given to Level
MaxArgs  == 2       \* Args in one NewMulti call

(***************************************************************************)
(* Constants of the package.                                               *)
(***************************************************************************)
elbowConnector == "+--"
teeConnector   == "|--"
pipePrefix     == "|   "
spacePrefix    == "    "

(***************************************************************************)
(* Strings as token sequences.                                             *)
(***************************************************************************)
Dot    == <<".">>
DotDot == <<".", ".">>
Dots3  == <<".", ".", ".">>
Slash  == <<"/">>

Range(s) == {s[i] : i \in 1..Len(s)}

RECURSIVE Str(_)
Str(s) == IF s = <<>> THEN "" ELSE Head(s) \o Str(Tail(s))

\* strings.HasPrefix(s, p)
HasPrefix(s, p) == Len(s) >= Len(p) /\ SubSeq(s, 1, Len(p)) = p

\* strings.Contains(s, sub)
Contains(s, sub) ==
    \E i \in 1..(Len(s) - Len(sub) + 1) : SubSeq(s, i, i + Len(sub) - 1) = sub

\* strings.Split(s, "/"): the segments of s between the "/" tokens
RECURSIVE SplitFrom(_, _, _)
SplitFrom(s, i, cur) ==
    IF i > Len(s) THEN <<cur>>
    ELSE IF s[i] = "/" THEN <<cur>> \o SplitFrom(s, i + 1, <<>>)
    ELSE SplitFrom(s, i + 1, Append(cur, s[i]))

Split(s) == SplitFrom(s, 1, <<>>)

\* strings.Join(segs, "/")
RECURSIVE JoinSegs(_)
JoinSegs(segs) ==
    IF segs = <<>> THEN <<>>
    ELSE IF Len(segs) = 1 THEN segs[1]
    ELSE segs[1] \o Slash \o JoinSegs(Tail(segs))

\* path.Clean on an unrooted path (an fs.FS path never starts with "/"):
\* empty and "." segments are dropped, an inner ".." removes the segment
\* before it, a leading ".." stays, and the empty result is ".".
RECURSIVE CleanSegs(_, _)
CleanSegs(segs, acc) ==
    IF segs = <<>> THEN acc
    ELSE LET s == Head(segs) IN
         IF s = <<>> \/ s = Dot THEN CleanSegs(Tail(segs), acc)
         ELSE IF s = DotDot
              THEN IF acc # <<>> /\ acc[Len(acc)] # DotDot
                   THEN CleanSegs(Tail(segs), SubSeq(acc, 1, Len(acc) - 1))
                   ELSE CleanSegs(Tail(segs), Append(acc, s))
              ELSE CleanSegs(Tail(segs), Append(acc, s))

Clean(p) ==
    LET segs == CleanSegs(Split(p), <<>>)
    IN  IF segs = <<>> THEN Dot ELSE JoinSegs(segs)

\* path.Join(a, b): the non-empty elements joined by "/", then cleaned;
\* the empty string when both are empty.
PathJoin(a, b) ==
    IF a = <<>> /\ b = <<>> THEN <<>>
    ELSE IF a = <<>> THEN Clean(b)
    ELSE IF b = <<>> THEN Clean(a)
    ELSE Clean(a \o Slash \o b)

(***************************************************************************)
(* The file systems handed to the package.  dirs maps the path of every    *)
(* directory to its listing, in the order fs.ReadDir returns it (sorted by *)
(* file name); bad holds the directories whose listing fails (permission,  *)
(* I/O).  Listing any other path fails too (not found, not a directory).   *)
(***************************************************************************)
\* An error is the *fs.PathError of the failed listing; NilErr is nil.
NilErr == [Path |-> <<>>, Err |-> "nil"]

\* fs.ReadDir(fsys, name)
ReadDir(fs, name) ==
    IF name \notin DOMAIN fs.dirs
    THEN [entries |-> <<>>, err |-> [Path |-> name, Err |-> "not exist"]]
    ELSE IF name \in fs.bad
    THEN [entries |-> <<>>, err |-> [Path |-> name, Err |-> "permission"]]
    ELSE [entries |-> fs.dirs[name], err |-> NilErr]

File(n) == [name |-> n, isDir |-> FALSE]
Dir(n)  == [name |-> n, isDir |-> TRUE]

\* Entry names of the generated listings, in byte order: "-" < ".h" < "a".
Pool == << <<"-">>, <<".", "h">>, <<"a">> >>

RECURSIVE SortedSeq(_)
SortedSeq(S) ==
    IF S = {} THEN <<>>
    ELSE LET m == CHOOSE x \in S : \A y \in S : x <= y
         IN  <<m>> \o SortedSeq(S \ {m})

\* Every listing of at most MaxWidth entries named from Pool, sorted by name,
\* each entry a file or a directory.
Listings ==
    UNION { LET idx == SortedSeq(S)
            IN  { [k \in 1..Len(idx) |->
                     [name |-> Pool[idx[k]], isDir |-> kind[idx[k]]]] :
                  kind \in [S -> BOOLEAN] }
          : S \in {T \in SUBSET (1..Len(Pool)) : Cardinality(T) <= MaxWidth} }

DirNames(l) == {l[i].name : i \in {j \in 1..Len(l) : l[j].isDir}}

\* The file system whose root lists l1, whose directories of the root all
\* list l2, and whose directories below are empty.
TwoLevelDirs(l1, l2) ==
    LET d1 == DirNames(l1)
        d2 == {PathJoin(d, e) : d \in d1, e \in DirNames(l2)}
    IN  [p \in {Dot} \cup d1 \cup d2 |->
            IF p = Dot THEN l1 ELSE IF p \in d1 THEN l2 ELSE <<>>]

\* The embedded testdata of the package's tests.
T(n) == <<n, ".", "test">>
TestdataDirs ==
    LET td  == <<"testdata">>
        tda == td \o Slash \o <<"a">>
        tdb == tda \o Slash \o <<"b">>
        tdc == tda \o Slash \o <<"c">>
        tdd == tdb \o Slash \o <<"d">>
    IN  (Dot :> <<Dir(td)>>)
        @@ (td  :> <<Dir(<<"a">>)>>)
        @@ (tda :> <<File(T("a1")), File(T("a2")), File(T("a3")),
                     Dir(<<"b">>), Dir(<<"c">>)>>)
        @@ (tdb :> <<File(T("b1")), File(T("b2")), File(T("b3")), Dir(<<"d">>)>>)
        @@ (tdd :> <<File(T("d1"))>>)
        @@ (tdc :> <<File(T("c1")), File(T("c2"))>>)

AllDirs ==
    {TwoLevelDirs(l1, l2) : l1 \in Listings, l2 \in Listings} \cup {TestdataDirs}

\* The file systems in which the root and its directories list the same.
UniformDirs == {TwoLevelDirs(l, l) : l \in Listings} \cup {TestdataDirs}

\* The file systems whose root lists files named "..", "...", ".h" and "a"
\* (byte order), as fstest.MapFS lists the keys of those names.
MarkerPool == <<DotDot, Dots3, <<".", "h">>, <<"a">>>>

MarkerListings ==
    { LET idx == SortedSeq(S)
      IN  [k \in 1..Len(idx) |-> File(MarkerPool[idx[k]])]
      : S \in SUBSET (1..Len(MarkerPool)) }

MarkerFileSystems == {[dirs |-> (Dot :> l), bad |-> {}] : l \in MarkerListings}

\* At most one directory below the root fails to list.
WithBad(ds) ==
    UNION { { [dirs |-> d, bad |-> b] :
              b \in {{}} \cup {{p} : p \in (DOMAIN d) \ {Dot}} }
          : d \in ds }

FileSystems == WithBad(AllDirs)

UniformFileSystems == WithBad(UniformDirs)

(***************************************************************************)
(* type TreeFS.  shown is a history field, not a field of the struct: the  *)
(* arguments of the append call that produced each line and, as text, the  *)
(* tokens of the name it wrote (the root line has none, it holds           *)
(* RootShown).                                                             *)
(***************************************************************************)
RootShown ==
    [prefix |-> "", connector |-> "", dirPath |-> <<>>, name |-> <<>>,
     text |-> <<>>]

ZeroTreeFS ==
    [fsys |-> [dirs |-> <<>>, bad |-> {}], tree |-> <<>>, pathPrefix |-> <<>>,
     NDirs |-> 0, NFiles |-> 0,
     hidden |-> FALSE, dirOnly |-> FALSE, fullPathPrefix |-> FALSE, level |-> 0,
     shown |-> <<>>]

\* The options.  An Opt of a call is [opt |-> its name, lvl |-> the argument
\* of Level, 0 for the others].
Hidden(t)         == [t EXCEPT !.hidden = TRUE]
DirOnly(t)        == [t EXCEPT !.dirOnly = TRUE]
FullPathPrefix(t) == [t EXCEPT !.fullPathPrefix = TRUE]
Level(lvl, t)     == IF lvl <= 0 THEN t ELSE [t EXCEPT !.level = lvl]

ApplyOpt(o, t) ==
    CASE o.opt = "Hidden"         -> Hidden(t)
      [] o.opt = "DirOnly"        -> DirOnly(t)
      [] o.opt = "FullPathPrefix" -> FullPathPrefix(t)
      [] o.opt = "Level"          -> Level(o.lvl, t)

RECURSIVE ApplyOpts(_, _)
ApplyOpts(opts, t) ==
    IF opts = <<>> THEN t ELSE ApplyOpts(Tail(opts), ApplyOpt(Head(opts), t))

\* strings.Join(lines, "\n")
RECURSIVE JoinLines(_)
JoinLines(lines) ==
    IF lines = <<>> THEN ""
    ELSE IF Len(lines) = 1 THEN lines[1]
    ELSE lines[1] \o "\n" \o JoinLines(Tail(lines))

Graph(t) == JoinLines(t.tree)

\* Meta with the DirOnly case lost.
MetaWithFiles(t) ==
    ToString(t.NDirs) \o " " \o (IF t.NDirs = 1 THEN "directory" ELSE "directories")
    \o ", " \o ToString(t.NFiles) \o " " \o (IF t.NFiles = 1 THEN "file" ELSE "files")

Meta(t) ==
    LET dirs  == IF t.NDirs = 1 THEN "directory" ELSE "directories"
        files == IF t.NFiles = 1 THEN "file" ELSE "files"
    IN  IF t.dirOnly
        THEN ToString(t.NDirs) \o " " \o dirs
        ELSE ToString(t.NDirs) \o " " \o dirs \o ", "
             \o ToString(t.NFiles) \o " " \o files

\* String without the blank line before the summary.
StringNoBlankLine(t) == Graph(t) \o "\n" \o Meta(t)

String(t) == Graph(t) \o "\n\n" \o Meta(t)

\* allow with the hidden test lost.
allowHidden(t, entry) == ~(t.dirOnly /\ ~entry.isDir)

allow(t, entry) ==
    LET name     == entry.name
        isHidden == HasPrefix(name, Dot) /\ name # Dot /\ name # Dots3
    IN  IF isHidden /\ ~t.hidden THEN FALSE
        ELSE IF t.dirOnly /\ ~entry.isDir THEN FALSE
        ELSE TRUE

\* displayed without the pathPrefix hint.
displayedNoHint(t, dirPath, name) ==
    IF ~t.fullPathPrefix THEN name ELSE PathJoin(dirPath, name)

\* The name append writes after the connector, as tokens.
displayed(t, dirPath, name) ==
    IF ~t.fullPathPrefix THEN name
    ELSE IF t.pathPrefix # <<>>
         THEN t.pathPrefix \o Slash \o PathJoin(dirPath, name)
         ELSE PathJoin(dirPath, name)

append(t, prefix, connector, dirPath, name) ==
    LET text == displayed(t, dirPath, name)
    IN  [t EXCEPT
           !.tree  = Append(@, prefix \o connector \o " " \o Str(text)),
           !.shown = Append(@, [prefix |-> prefix, connector |-> connector,
                                dirPath |-> dirPath, name |-> name,
                                text |-> text])]

countDir(t)  == [t EXCEPT !.NDirs = @ + 1]

\* A file counted as a directory.
countFileAsDir(t) == [t EXCEPT !.NDirs = @ + 1]

countFile(t) == [t EXCEPT !.NFiles = @ + 1]

\* connectorAt comparing the index with the length.
connectorAtLen(i, numEntries) ==
    IF i = numEntries THEN elbowConnector ELSE teeConnector

\* The connector of the entry at index i (0-based) of numEntries.
connectorAt(i, numEntries) ==
    IF i = numEntries - 1 THEN elbowConnector ELSE teeConnector

\* The prefix addDir hands to the contents of the directory.
childPrefix(args) ==
    IF args.idx # args.numFiles - 1
    THEN args.prefix \o pipePrefix
    ELSE args.prefix \o spacePrefix

\* levelReached one level late.
levelReachedLate(t, lvl) == t.level > 0 /\ lvl = t.level + 1

\* "Return if max level has been set and reached."
levelReached(t, lvl) == t.level > 0 /\ lvl = t.level

RECURSIVE treeFSWithPrefix(_, _, _, _)
RECURSIVE rangeEntries(_, _, _, _, _, _)
RECURSIVE addDir(_, _)

\* The loop of treeFSWithPrefix from the entry at index i (1-based here,
\* i - 1 in the code).
rangeEntries(t, name, prefix, lvl, entries, i) ==
    IF i > Len(entries) THEN [tfs |-> t, err |-> NilErr]
    ELSE LET entry      == entries[i]
             numEntries == Len(entries)
             connector  == connectorAt(i - 1, numEntries)
         IN  IF ~allow(t, entry)
             THEN rangeEntries(t, name, prefix, lvl, entries, i + 1)
             ELSE IF entry.isDir
             THEN LET r == addDir(countDir(t),
                                  [path |-> name, name |-> entry.name,
                                   idx |-> i - 1, numFiles |-> numEntries,
                                   prefix |-> prefix, connector |-> connector,
                                   lvl |-> lvl])
                  IN  IF r.err # NilErr THEN r
                      ELSE rangeEntries(r.tfs, name, prefix, lvl, entries, i + 1)
             ELSE rangeEntries(append(countFile(t),
                                      prefix, connector, name, entry.name),
                               name, prefix, lvl, entries, i + 1)

treeFSWithPrefix(t, name, prefix, lvl) ==
    IF levelReached(t, lvl) THEN [tfs |-> t, err |-> NilErr]
    ELSE LET rd == ReadDir(t.fsys, name)
         IN  IF rd.err # NilErr THEN [tfs |-> t, err |-> rd.err]
             ELSE rangeEntries(t, name, prefix, lvl, rd.entries, 1)

\* addDir writing the line of the directory after its contents.
addDirAfter(t, args) ==
    LET r == treeFSWithPrefix(t, PathJoin(args.path, args.name),
                              childPrefix(args), args.lvl + 1)
    IN  [tfs |-> append(r.tfs, args.prefix, args.connector, args.path, args.name),
         err |-> r.err]

addDir(t, args) ==
    treeFSWithPrefix(append(t, args.prefix, args.connector, args.path, args.name),
                     PathJoin(args.path, args.name),
                     childPrefix(args),
                     args.lvl + 1)

\* Whether New walks from "." in place of name.
substituted(name) == Contains(name, <<".", ".", "/">>) \/ name = Dot

New(fs, name, opts) ==
    LET t0 == ApplyOpts(opts, [ZeroTreeFS EXCEPT !.fsys  = fs,
                                                 !.tree  = <<Str(name)>>,
                                                 !.shown = <<RootShown>>])
        t1 == IF substituted(name) THEN [t0 EXCEPT !.pathPrefix = name] ELSE t0
        nm == IF substituted(name) THEN Dot ELSE name
    IN  treeFSWithPrefix(t1, nm, "", 0)

\* aggregate with NFiles assigned, not added.
aggregateAssign(t, t2) ==
    [t EXCEPT !.tree   = @ \o t2.tree,
              !.shown  = @ \o t2.shown,
              !.NDirs  = @ + t2.NDirs,
              !.NFiles = t2.NFiles]

\* What NewMulti adds to the aggregate t from the TreeFS t2 of one Arg.
aggregate(t, t2) ==
    [t EXCEPT !.tree   = @ \o t2.tree,
              !.shown  = @ \o t2.shown,
              !.NDirs  = @ + t2.NDirs,
              !.NFiles = @ + t2.NFiles]

\* The loop of NewMulti from the Arg at index i, t being the aggregate so far.
RECURSIVE rangeArgs(_, _, _)
rangeArgs(t, args, i) ==
    IF i > Len(args) THEN [tfs |-> t, err |-> NilErr]
    ELSE LET r == New(args[i].Fsys, args[i].Name, args[i].Opts)
         IN  IF r.err # NilErr THEN [tfs |-> t, err |-> r.err]
             ELSE rangeArgs(aggregate(t, r.tfs), args, i + 1)

NewMulti(args) == rangeArgs(ZeroTreeFS, args, 1)

(***************************************************************************)
(* The calls.  A behaviour is one call of New or NewMulti on the file      *)
(* system chosen at the start, followed by the formatting of the TreeFS it *)
(* returned; no state is shared between two calls of the package.          *)
(***************************************************************************)
Opt(o)      == [opt |-> o, lvl |-> 0]
LevelOpt(l) == [opt |-> "Level", lvl |-> l]

LevelArgs == (-1)..MaxLevel

OptLists ==
    { (IF h THEN <<Opt("Hidden")>> ELSE <<>>)
      \o (IF d THEN <<Opt("DirOnly")>> ELSE <<>>)
      \o (IF f THEN <<Opt("FullPathPrefix")>> ELSE <<>>)
      \o lv
      : h \in BOOLEAN, d \in BOOLEAN, f \in BOOLEAN,
        lv \in {<<>>} \cup {<<LevelOpt(l)>> : l \in LevelArgs} }

RootNames == {Dot, <<"a">>, <<"testdata", "/", "a">>}

\* Root names that name the parent directory: "..", "../a", "a/..", and
\* "a../a", which has the characters "../" and no ".." segment.
ParentRootNames ==
    { DotDot,
      DotDot \o Slash \o <<"a">>,
      <<"a">> \o Slash \o DotDot,
      <<"a">> \o DotDot \o Slash \o <<"a">> }

\* The Args of a NewMulti call: any root name, with no option or one.
MultiOptLists == {<<>>, <<Opt("DirOnly")>>, <<Opt("Hidden")>>}

MultiArgs == [Name : RootNames, Opts : MultiOptLists]

ArgLists == UNION {[1..n -> MultiArgs] : n \in 0..MaxArgs}

WithFsys(fs, as) ==
    [i \in 1..Len(as) |-> [Fsys |-> fs, Name |-> as[i].Name, Opts |-> as[i].Opts]]

NoCall ==
    /\ call = [fn |-> "none", args |-> <<>>]
    /\ tfs = ZeroTreeFS
    /\ err = NilErr
    /\ out = [fn |-> "none", str |-> ""]

Init == fsys \in UniformFileSystems /\ NoCall

InitRender == fsys \in FileSystems /\ NoCall

InitMarkers == fsys \in MarkerFileSystems /\ NoCall

CallNew ==
    /\ call.fn = "none"
    /\ \E name \in RootNames, opts \in OptLists :
          LET r == New(fsys, name, opts)
          IN  /\ call' = [fn |-> "New", args |-> <<[Name |-> name, Opts |-> opts]>>]
              /\ tfs' = r.tfs
              /\ err' = r.err
    /\ UNCHANGED <<fsys, out>>

\* New called with a root name that may name the parent directory.
CallNewRoot ==
    /\ call.fn = "none"
    /\ \E name \in RootNames \cup ParentRootNames, opts \in OptLists :
          LET r == New(fsys, name, opts)
          IN  /\ call' = [fn |-> "New", args |-> <<[Name |-> name, Opts |-> opts]>>]
              /\ tfs' = r.tfs
              /\ err' = r.err
    /\ UNCHANGED <<fsys, out>>

CallNewMulti ==
    /\ call.fn = "none"
    /\ \E as \in ArgLists :
          LET r == NewMulti(WithFsys(fsys, as))
          IN  /\ call' = [fn |-> "NewMulti", args |-> as]
              /\ tfs' = r.tfs
              /\ err' = r.err
    /\ UNCHANGED <<fsys, out>>

\* The caller formats the TreeFS it was returned without an error.
Returned == call.fn # "none" /\ err = NilErr /\ out.fn = "none"

CallString ==
    /\ Returned
    /\ out' = [fn |-> "String", str |-> String(tfs)]
    /\ UNCHANGED <<fsys, call, tfs, err>>

CallGraph ==
    /\ Returned
    /\ out' = [fn |-> "Graph", str |-> Graph(tfs)]
    /\ UNCHANGED <<fsys, call, tfs, err>>

CallMeta ==
    /\ Returned
    /\ out' = [fn |-> "Meta", str |-> Meta(tfs)]
    /\ UNCHANGED <<fsys, call, tfs, err>>

Next == CallNew \/ CallNewMulti \/ CallString \/ CallGraph \/ CallMeta

\* Every call of the package, on the uniform file systems.
Spec == Init /\ [][Next]_vars

\* New alone, on every generated file system.
SpecRender == InitRender /\ [][CallNew]_vars

\* New alone, on the file systems that list the marker names.
SpecMarkers == InitMarkers /\ [][CallNew]_vars

\* New alone, on the uniform file systems, with every root name.
SpecRoots == Init /\ [][CallNewRoot]_vars

(***************************************************************************)
(* What a state says about the call it holds.                              *)
(***************************************************************************)
HasOpt(opts, o) == \E i \in 1..Len(opts) : opts[i].opt = o

\* The depth limit the options ask for, 0 when they ask for none.
LimitOf(opts) ==
    IF \E i \in 1..Len(opts) : opts[i].opt = "Level" /\ opts[i].lvl > 0
    THEN opts[CHOOSE i \in 1..Len(opts) : opts[i].opt = "Level" /\ opts[i].lvl > 0].lvl
    ELSE 0

NewReturned == call.fn = "New"
NewOK       == call.fn = "New" /\ err = NilErr
MultiOK     == call.fn = "NewMulti" /\ err = NilErr

ArgName == call.args[1].Name
ArgOpts == call.args[1].Opts

\* The directory New lists first.
WalkRoot == IF substituted(ArgName) THEN Dot ELSE ArgName

\* The lines after the root line, as indices of tfs.tree and tfs.shown.
EntryLines == 2..Len(tfs.shown)

EntryPath(s) == PathJoin(s.dirPath, s.name)
ListingOf(s) == fsys.dirs[s.dirPath]
IndexOf(s)   == CHOOSE i \in 1..Len(ListingOf(s)) : ListingOf(s)[i].name = s.name
EntryOf(s)   == ListingOf(s)[IndexOf(s)]

SegCount(p) == IF p = Dot THEN 0 ELSE Len(Split(p))

\* The depth of a displayed entry: 1 for the entries of the walk root.
Depth(s) == SegCount(s.dirPath) - SegCount(WalkRoot) + 1

\* Some entry listed after s in its directory passes the filter.
SurvivorAfter(s) ==
    \E j \in (IndexOf(s) + 1)..Len(ListingOf(s)) : allow(tfs, ListingOf(s)[j])

\* Some entry listed after s in its directory is filtered out.
FilteredAfter(s) ==
    \E j \in (IndexOf(s) + 1)..Len(ListingOf(s)) : ~allow(tfs, ListingOf(s)[j])

\* The line of the directory whose contents hold the entry of line k.
ParentLine(k) ==
    CHOOSE j \in 2..(k - 1) : EntryPath(tfs.shown[j]) = tfs.shown[k].dirPath

(***************************************************************************)
(* C1.  In every report of New, at each level the last entry that passes   *)
(* allow has the elbow connector and every other displayed entry of that   *)
(* level the tee connector, also when the last listed entry is filtered.   *)
(* The code compares the index in the unfiltered listing with its length,  *)
(* so a last survivor followed by a filtered entry gets the tee.           *)
(***************************************************************************)
C1_LastSurvivorElbow ==
    NewOK =>
        \A k \in EntryLines :
            tfs.shown[k].connector =
                IF SurvivorAfter(tfs.shown[k]) THEN teeConnector ELSE elbowConnector

(***************************************************************************)
(* C2.  The lines of the contents of a displayed directory D have the      *)
(* prefix of D's line plus the pipe segment when a surviving sibling is    *)
(* displayed after D, plus the blank segment when D is the last survivor.  *)
(* The code decides by D's index in the unfiltered listing.                *)
(***************************************************************************)
C2_ChildPrefix ==
    NewOK =>
        \A k \in EntryLines :
            Depth(tfs.shown[k]) > 1 =>
                LET d == tfs.shown[ParentLine(k)]
                IN  tfs.shown[k].prefix =
                        d.prefix \o (IF SurvivorAfter(d) THEN pipePrefix
                                                         ELSE spacePrefix)

(***************************************************************************)
(* C3.  A TreeFS that New returns with an error carries no report: only    *)
(* the root line an empty report has, and NDirs = NFiles = 0.  New hands   *)
(* back the TreeFS it was filling when a directory below the root failed.  *)
(***************************************************************************)
C3_NoPartialReport ==
    (NewReturned /\ err # NilErr) =>
        /\ tfs.tree = <<Str(ArgName)>>
        /\ tfs.NDirs = 0
        /\ tfs.NFiles = 0

(***************************************************************************)
(* C4.  NewMulti returns the error of the first Arg whose render fails,    *)
(* and the TreeFS it returns with it holds no line and no count of the     *)
(* Args rendered before.  The code returns the aggregate built so far.     *)
(***************************************************************************)
ArgErr(i) == New(fsys, call.args[i].Name, call.args[i].Opts).err

FirstFailing(i) ==
    /\ ArgErr(i) # NilErr
    /\ \A j \in 1..(i - 1) : ArgErr(j) = NilErr

C4_MultiNoPartialAggregate ==
    call.fn = "NewMulti" =>
        /\ \A i \in 1..Len(call.args) : FirstFailing(i) => err = ArgErr(i)
        /\ err # NilErr =>
              /\ \E i \in 1..Len(call.args) : FirstFailing(i)
              /\ tfs.tree = <<>>
              /\ tfs.NDirs = 0
              /\ tfs.NFiles = 0

(***************************************************************************)
(* C5.  When every Arg renders, the aggregate of NewMulti has the lines of *)
(* New on each Arg, concatenated in Arg order, each block starting with    *)
(* the root name of its Arg, and the sums of their NDirs and NFiles.       *)
(***************************************************************************)
ArgTFS(i) == New(fsys, call.args[i].Name, call.args[i].Opts).tfs

RECURSIVE LinesUpTo(_)
LinesUpTo(n) == IF n = 0 THEN <<>> ELSE LinesUpTo(n - 1) \o ArgTFS(n).tree

RECURSIVE DirsUpTo(_)
DirsUpTo(n) == IF n = 0 THEN 0 ELSE DirsUpTo(n - 1) + ArgTFS(n).NDirs

RECURSIVE FilesUpTo(_)
FilesUpTo(n) == IF n = 0 THEN 0 ELSE FilesUpTo(n - 1) + ArgTFS(n).NFiles

C5_MultiConcat ==
    MultiOK =>
        /\ tfs.tree = LinesUpTo(Len(call.args))
        /\ tfs.NDirs = DirsUpTo(Len(call.args))
        /\ tfs.NFiles = FilesUpTo(Len(call.args))
        /\ \A i \in 1..Len(call.args) :
              tfs.tree[Len(LinesUpTo(i - 1)) + 1] = Str(call.args[i].Name)

\* Two Args render, each with directories and files of its own.
C5_Witness ==
    /\ MultiOK
    /\ Len(call.args) = 2
    /\ \A i \in 1..2 : ArgTFS(i).NDirs >= 1 /\ ArgTFS(i).NFiles >= 1
    /\ ArgTFS(1).tree # ArgTFS(2).tree

(***************************************************************************)
(* The entries a render displays.                                          *)
(***************************************************************************)
\* The directories the render lists: the walk root and every displayed
\* directory above the depth limit.
ListedDirs ==
    {WalkRoot} \cup
    { EntryPath(tfs.shown[k]) :
        k \in { j \in EntryLines :
                  /\ EntryOf(tfs.shown[j]).isDir
                  /\ (LimitOf(ArgOpts) = 0 \/ Depth(tfs.shown[j]) < LimitOf(ArgOpts)) } }

Displayed(d, n) ==
    \E k \in EntryLines : tfs.shown[k].dirPath = d /\ tfs.shown[k].name = n

DirLines  == {k \in EntryLines : EntryOf(tfs.shown[k]).isDir}
FileLines == {k \in EntryLines : ~EntryOf(tfs.shown[k]).isDir}

\* A name that starts with "." and is none of the marker names.
HiddenName(n) == HasPrefix(n, Dot) /\ n \notin {Dot, DotDot, Dots3}

(***************************************************************************)
(* C6, as claimed.  An entry of a listed directory whose name starts with  *)
(* "." is displayed if and only if Hidden is set.  A hidden file is not    *)
(* displayed under Hidden and DirOnly together.                            *)
(***************************************************************************)
C6_HiddenIffOption ==
    NewOK =>
        \A d \in ListedDirs :
            \A i \in 1..Len(fsys.dirs[d]) :
                HiddenName(fsys.dirs[d][i].name) =>
                    (Displayed(d, fsys.dirs[d][i].name) <=> HasOpt(ArgOpts, "Hidden"))

(***************************************************************************)
(* C6, amended.  At every depth, an entry of a listed directory whose name *)
(* starts with "." is displayed and counted if and only if Hidden is set   *)
(* and it is not a file under DirOnly; without Hidden no line has such a   *)
(* name, and every line below the first level lies in a displayed          *)
(* directory, so nothing below a hidden directory is displayed.            *)
(***************************************************************************)
C6_HiddenFilter ==
    NewOK =>
        /\ \A d \in ListedDirs :
              \A i \in 1..Len(fsys.dirs[d]) :
                  LET e == fsys.dirs[d][i]
                  IN  HiddenName(e.name) =>
                          (Displayed(d, e.name) <=>
                              /\ HasOpt(ArgOpts, "Hidden")
                              /\ (e.isDir \/ ~HasOpt(ArgOpts, "DirOnly")))
        /\ \A k \in EntryLines :
              /\ HiddenName(tfs.shown[k].name) => HasOpt(ArgOpts, "Hidden")
              /\ tfs.shown[k].dirPath \in ListedDirs
        /\ tfs.NDirs = Cardinality(DirLines)
        /\ tfs.NFiles = Cardinality(FileLines)

\* Hidden and DirOnly: a hidden directory below the first level is
\* displayed, a hidden file beside it is not.
C6_Witness ==
    /\ NewOK
    /\ HasOpt(ArgOpts, "Hidden")
    /\ HasOpt(ArgOpts, "DirOnly")
    /\ \E k \in EntryLines :
          /\ Depth(tfs.shown[k]) = 2
          /\ HiddenName(tfs.shown[k].name)
    /\ \E d \in ListedDirs : \E i \in 1..Len(fsys.dirs[d]) :
          /\ HiddenName(fsys.dirs[d][i].name)
          /\ ~Displayed(d, fsys.dirs[d][i].name)

\* Without Hidden: a hidden directory that holds entries is not displayed,
\* and nothing below it is.
C6_WitnessNotDescended ==
    /\ NewOK
    /\ ~HasOpt(ArgOpts, "Hidden")
    /\ \E i \in 1..Len(fsys.dirs[WalkRoot]) :
          LET e == fsys.dirs[WalkRoot][i]
          IN  /\ HiddenName(e.name)
              /\ e.isDir
              /\ fsys.dirs[PathJoin(WalkRoot, e.name)] # <<>>
              /\ ~Displayed(WalkRoot, e.name)

\* Every entry of a listed directory that passes the filter is displayed.
AllowedDisplayed ==
    \A d \in ListedDirs :
        \A i \in 1..Len(fsys.dirs[d]) :
            allow(tfs, fsys.dirs[d][i]) => Displayed(d, fsys.dirs[d][i].name)

Plural(n, one, many) == IF n = 1 THEN one ELSE many

\* The directories a TreeFS displays, each as <<path of its directory, name>>.
DisplayedDirs(t) ==
    { <<t.shown[k].dirPath, t.shown[k].name>> :
        k \in {j \in 2..Len(t.shown) : EntryOf(t.shown[j]).isDir} }

WithoutDirOnly(opts) == SelectSeq(opts, LAMBDA o : o.opt # "DirOnly")

(***************************************************************************)
(* C7.  With DirOnly, no line after the root line is a file, NFiles is 0,  *)
(* every directory of a listed directory (not hidden, or Hidden set) is    *)
(* displayed and counted, the directories displayed and NDirs are those of *)
(* the same call without DirOnly, and Meta() is                            *)
(* "<N> directory|directories" with no file clause.                        *)
(***************************************************************************)
C7_DirOnly ==
    (NewOK /\ HasOpt(ArgOpts, "DirOnly")) =>
        /\ FileLines = {}
        /\ tfs.NFiles = 0
        /\ \A d \in ListedDirs :
              \A i \in 1..Len(fsys.dirs[d]) :
                  LET e == fsys.dirs[d][i]
                  IN  (e.isDir /\ (~HasPrefix(e.name, Dot) \/ HasOpt(ArgOpts, "Hidden")))
                          => Displayed(d, e.name)
        /\ tfs.NDirs = Len(tfs.tree) - 1
        /\ LET r == New(fsys, ArgName, WithoutDirOnly(ArgOpts))
           IN  /\ r.err = NilErr
               /\ DisplayedDirs(tfs) = DisplayedDirs(r.tfs)
               /\ tfs.NDirs = r.tfs.NDirs
        /\ out.fn = "Meta" =>
              out.str = ToString(tfs.NDirs) \o " "
                        \o Plural(tfs.NDirs, "directory", "directories")

\* A DirOnly render of directories that hold files beside directories, two
\* levels deep, and its Meta().
C7_Witness ==
    /\ NewOK
    /\ HasOpt(ArgOpts, "DirOnly")
    /\ out.fn = "Meta"
    /\ \E k \in EntryLines : Depth(tfs.shown[k]) = 2
    /\ \A d \in ListedDirs :
          fsys.dirs[d] # <<>> => \E i \in 1..Len(fsys.dirs[d]) : ~fsys.dirs[d][i].isDir

(***************************************************************************)
(* C8.  With Level(L), L > 0, no displayed entry is deeper than L (the     *)
(* entries of the root have depth 1), every entry of depth at most L that  *)
(* passes the filter is displayed and counted, and no directory of depth L *)
(* or more is listed: a listing error names a directory above depth L.     *)
(* With Level(L), L <= 0, New returns what it returns without Level, and   *)
(* without a limit the contents of every displayed directory are listed.   *)
(***************************************************************************)
LevelArgOf(opts) ==
    opts[CHOOSE i \in 1..Len(opts) : opts[i].opt = "Level"].lvl

WithoutLevel(opts) == SelectSeq(opts, LAMBDA o : o.opt # "Level")

C8_Depth ==
    NewReturned =>
        /\ (HasOpt(ArgOpts, "Level") /\ LevelArgOf(ArgOpts) > 0) =>
              /\ \A k \in EntryLines : Depth(tfs.shown[k]) <= LevelArgOf(ArgOpts)
              /\ err # NilErr =>
                    SegCount(err.Path) - SegCount(WalkRoot) < LevelArgOf(ArgOpts)
              /\ err = NilErr =>
                    /\ \A k \in DirLines :
                          EntryPath(tfs.shown[k]) \in fsys.bad
                              => Depth(tfs.shown[k]) >= LevelArgOf(ArgOpts)
                    /\ AllowedDisplayed
                    /\ tfs.NDirs = Cardinality(DirLines)
                    /\ tfs.NFiles = Cardinality(FileLines)
        /\ (HasOpt(ArgOpts, "Level") /\ LevelArgOf(ArgOpts) <= 0) =>
              LET r == New(fsys, ArgName, WithoutLevel(ArgOpts))
              IN  tfs = r.tfs /\ err = r.err
        /\ (LimitOf(ArgOpts) = 0 /\ err = NilErr) =>
              /\ \A k \in DirLines : EntryPath(tfs.shown[k]) \in ListedDirs
              /\ AllowedDisplayed

\* Level(1): a directory of depth 1 is displayed, its listing would fail
\* and is never asked for; another holds entries that are not displayed.
C8_Witness ==
    /\ NewOK
    /\ HasOpt(ArgOpts, "Level") /\ LevelArgOf(ArgOpts) = 1
    /\ \E k \in DirLines : EntryPath(tfs.shown[k]) \in fsys.bad
    /\ \E k \in DirLines : fsys.dirs[EntryPath(tfs.shown[k])] # <<>>

(***************************************************************************)
(* C9.  The scenario: the testdata file system, root testdata/a, Level(1). *)
(***************************************************************************)
Scenario ==
    /\ fsys = [dirs |-> TestdataDirs, bad |-> {}]
    /\ call = [fn |-> "New",
               args |-> <<[Name |-> <<"testdata", "/", "a">>,
                           Opts |-> <<LevelOpt(1)>>]>>]

ScenarioLines ==
    << "testdata/a",
       "|-- a1.test",
       "|-- a2.test",
       "|-- a3.test",
       "|-- b",
       "+-- c" >>

\* As claimed: the summary line reads "3 directories, 3 files".
C9_ScenarioThreeDirs ==
    Scenario =>
        /\ err = NilErr
        /\ tfs.tree = ScenarioLines
        /\ out.fn = "Meta" => out.str = "3 directories, 3 files"

\* Amended: the three files and b and c are displayed as leaf lines, and
\* the summary line reads "2 directories, 3 files": only b and c are
\* displayed directories, the root is not counted.
C9_Scenario ==
    Scenario =>
        /\ err = NilErr
        /\ tfs.tree = ScenarioLines
        /\ tfs.NDirs = 2 /\ tfs.NFiles = 3
        /\ out.fn = "Meta" => out.str = "2 directories, 3 files"
        /\ out.fn = "String" =>
              out.str = "testdata/a\n|-- a1.test\n|-- a2.test\n|-- a3.test\n"
                        \o "|-- b\n+-- c\n\n2 directories, 3 files"

C9_Witness == Scenario /\ out.fn = "Meta"

(***************************************************************************)
(* C10.  In every report New returns without error, NDirs is the number of *)
(* displayed lines whose entry is a directory, NFiles the number of those  *)
(* whose entry is a file, the root is counted in neither, and their sum is *)
(* the number of lines after the root line.                                *)
(***************************************************************************)
C10_Counts ==
    NewOK =>
        /\ Len(tfs.shown) = Len(tfs.tree)
        /\ tfs.tree[1] = Str(ArgName)
        /\ tfs.NDirs = Cardinality(DirLines)
        /\ tfs.NFiles = Cardinality(FileLines)
        /\ tfs.NDirs + tfs.NFiles = Len(tfs.tree) - 1

\* A directory and a file in it are displayed, and an entry of a listed
\* directory is filtered out.
C10_Witness ==
    /\ NewOK
    /\ \E k \in DirLines : Depth(tfs.shown[k]) = 1
    /\ \E k \in FileLines : Depth(tfs.shown[k]) = 2
    /\ \E d \in ListedDirs :
          \E i \in 1..Len(fsys.dirs[d]) : ~allow(tfs, fsys.dirs[d][i])

(***************************************************************************)
(* C11.  With FullPathPrefix, the name displayed on every line after the   *)
(* root line, split on "/", ends with the bare name of the entry, and what *)
(* comes before that last segment is the name displayed on the line of the *)
(* entry's parent directory; for an entry of the root that is the root     *)
(* name of the first line (the pathPrefix hint when New substituted "."),  *)
(* not the directory New walked.                                           *)
(***************************************************************************)
\* The name displayed on the line of the directory that lists line k.
ParentShown(k) ==
    IF Depth(tfs.shown[k]) = 1 THEN ArgName ELSE tfs.shown[ParentLine(k)].text

C11_FullPath ==
    (NewOK /\ HasOpt(ArgOpts, "FullPathPrefix")) =>
        /\ tfs.tree[1] = Str(ArgName)
        /\ \A k \in EntryLines :
              LET s    == tfs.shown[k]
                  segs == Split(s.text)
              IN  /\ tfs.tree[k] = s.prefix \o s.connector \o " " \o Str(s.text)
                  /\ segs[Len(segs)] = s.name
                  /\ s.text = ParentShown(k) \o Slash \o s.name

\* A full-path report of a substituted "../a" with a line two levels down.
C11_Witness ==
    /\ NewOK /\ HasOpt(ArgOpts, "FullPathPrefix")
    /\ ArgName = DotDot \o Slash \o <<"a">>
    /\ tfs.pathPrefix = ArgName
    /\ \E k \in EntryLines : Depth(tfs.shown[k]) = 2
(***************************************************************************)
(* C12.  New walks from "." and records the root name as pathPrefix for    *)
(* every root name that has ".." as one of its "/"-separated segments or   *)
(* is "."; for every other root name it walks from that name and leaves    *)
(* pathPrefix empty; the first line is the root name in both cases.  The   *)
(* code looks for the characters "../" in the name, so ".." and "a/.." are  *)
(* walked as given and "a../a" is walked from ".".                         *)
(***************************************************************************)
\* The first directory New listed was x.
WalkedFrom(x) ==
    IF Len(tfs.shown) >= 2 THEN tfs.shown[2].dirPath = x
    ELSE IF err # NilErr THEN err.Path = x
    ELSE ReadDir(fsys, x).err = NilErr

HasParentSegment(name) == DotDot \in Range(Split(name))

C12_RootSubstitution ==
    NewReturned =>
        /\ tfs.tree[1] = Str(ArgName)
        /\ IF HasParentSegment(ArgName) \/ ArgName = Dot
           THEN tfs.pathPrefix = ArgName /\ WalkedFrom(Dot)
           ELSE tfs.pathPrefix = <<>> /\ WalkedFrom(ArgName)
(***************************************************************************)
(* C13.  The lines after the root line are the displayed entries in        *)
(* depth-first pre-order: the entries of one directory appear in the order *)
(* of its listing, the line of a directory comes before the lines of its   *)
(* descendants, which follow it immediately and without a gap, before the  *)
(* line of its next displayed sibling.                                     *)
(***************************************************************************)
\* The path p is d or lies below d.
Under(p, d) == p = d \/ HasPrefix(p, d \o Slash)

\* Line k shows a descendant of the directory of line j.
DescendantLine(k, j) == Under(tfs.shown[k].dirPath, EntryPath(tfs.shown[j]))

C13_PreOrder ==
    NewOK =>
        /\ \A j, k \in EntryLines :
              (j < k /\ tfs.shown[j].dirPath = tfs.shown[k].dirPath)
                  => IndexOf(tfs.shown[j]) < IndexOf(tfs.shown[k])
        /\ \A k \in EntryLines :
              \/ tfs.shown[k].dirPath = WalkRoot
              \/ \E j \in 2..(k - 1) :
                    EntryPath(tfs.shown[j]) = tfs.shown[k].dirPath
        /\ \A j \in DirLines, k \in EntryLines :
              DescendantLine(k, j) =>
                  /\ j < k
                  /\ \A m \in (j + 1)..k : DescendantLine(m, j)
                  /\ \A n \in EntryLines :
                        (n > j /\ tfs.shown[n].dirPath = tfs.shown[j].dirPath)
                            => k < n

\* A directory line, lines of its contents two levels down, then the line of
\* its next sibling.
C13_Witness ==
    /\ NewOK
    /\ \E j \in DirLines, k, n \in EntryLines :
          /\ DescendantLine(k, j)
          /\ Depth(tfs.shown[k]) = Depth(tfs.shown[j]) + 2
          /\ tfs.shown[n].dirPath = tfs.shown[j].dirPath
          /\ k < n
(***************************************************************************)
(* C14.  Meta() of a report made without DirOnly is the directory count,   *)
(* "directory" when it is 1 and "directories" otherwise (0 included), a    *)
(* comma, the file count, and "file" when it is 1 and "files" otherwise;   *)
(* String() is the lines joined by newlines, one blank line, and that      *)
(* summary.                                                                *)
(***************************************************************************)
Summary ==
    ToString(tfs.NDirs) \o " " \o Plural(tfs.NDirs, "directory", "directories")
    \o ", "
    \o ToString(tfs.NFiles) \o " " \o Plural(tfs.NFiles, "file", "files")

\* The first n lines of the report, each but the last followed by a newline.
RECURSIVE LinesText(_)
LinesText(n) ==
    IF n = 0 THEN ""
    ELSE IF n = 1 THEN tfs.tree[1]
    ELSE LinesText(n - 1) \o "\n" \o tfs.tree[n]

C14_Summary ==
    (NewOK /\ ~HasOpt(ArgOpts, "DirOnly")) =>
        /\ out.fn = "Meta" => out.str = Summary
        /\ out.fn = "String" =>
              out.str = LinesText(Len(tfs.tree)) \o "\n" \o "\n" \o Summary

\* Meta() and String() with a singular, a plural and a zero count.
C14_Witness ==
    /\ NewOK /\ ~HasOpt(ArgOpts, "DirOnly")
    /\ out.fn \in {"Meta", "String"}
    /\ tfs.NDirs \in {0, 1}
    /\ tfs.NFiles \in {0, 1}
    /\ tfs.NDirs # tfs.NFiles
(***************************************************************************)
(* C15.  Meta() of the aggregate NewMulti builds from one or more Args     *)
(* that all carry DirOnly is the summed directory count followed by        *)
(* "directory" or "directories", with no file clause.  NewMulti adds the   *)
(* lines and counts of each Arg to a zero TreeFS and copies no option, so  *)
(* the aggregate's dirOnly stays false and Meta() writes ", 0 files".      *)
(***************************************************************************)
AllDirOnly ==
    /\ Len(call.args) >= 1
    /\ \A i \in 1..Len(call.args) : HasOpt(call.args[i].Opts, "DirOnly")

C15_MultiDirOnlySummary ==
    (MultiOK /\ AllDirOnly /\ out.fn = "Meta") =>
        /\ tfs.NDirs = DirsUpTo(Len(call.args))
        /\ out.str = ToString(tfs.NDirs) \o " "
                      \o Plural(tfs.NDirs, "directory", "directories")
(***************************************************************************)
(* C16.  An entry named ".", ".." or "..." is never treated as hidden: it  *)
(* is displayed and counted without Hidden too (unless it is a file under  *)
(* DirOnly); every other entry whose name starts with "." is hidden.  The  *)
(* code exempts "." and "..." only, so an entry named ".." is hidden.      *)
(***************************************************************************)
MarkerNames == {Dot, DotDot, Dots3}

C16_ThreeMarkers ==
    NewOK =>
        /\ tfs.NDirs + tfs.NFiles = Len(tfs.tree) - 1
        /\ \A d \in ListedDirs : \A i \in 1..Len(fsys.dirs[d]) :
              LET e == fsys.dirs[d][i]
              IN  /\ (e.name \in MarkerNames /\ ~(tfs.dirOnly /\ ~e.isDir))
                       => Displayed(d, e.name)
                  /\ (HasPrefix(e.name, Dot) /\ e.name \notin MarkerNames
                         /\ ~tfs.hidden)
                       => ~Displayed(d, e.name)
====
